---- MODULE Spec2Model ----
(***************************************************************************)
(* Model of main.py of the elections scraper: argument validation, the     *)
(* district page, the municipality locator, the two extractors, the scrape *)
(* loop of main and write_csv.                                             *)
(*                                                                         *)
(* A text (a Python str) is a sequence of symbols.  A symbol is one        *)
(* character ("0", "1", "2", " ", "nbsp" for U+00A0, "tab", "a", "sup2"    *)
(* for U+00B2) or an indivisible word (a label, a party name, a column     *)
(* name) that contains no digit and no leading or trailing white space.    *)
(* A call's outcome is a record: exc = "none" with the returned value, or  *)
(* the exception that left the call ("ValueError", "SystemExit").          *)
(***************************************************************************)
EXTENDS Integers, Sequences, FiniteSets, TLC

VARIABLES pc, argv, exit_code, fetched, soup, municipalities, rows,
          party_cols, file, arg, ret

vars == <<pc, argv, exit_code, fetched, soup, municipalities, rows,
          party_cols, file, arg, ret>>

mainVars == <<argv, exit_code, fetched, soup, municipalities, rows,
              party_cols, file>>

\* ------------------------------------------------------------------ bounds
MaxLen == 3
MaxLinks == 3
MaxRows == 3

\* ------------------------------------------------------------------ texts
Space == " "
Nbsp == "nbsp"
Tab == "tab"
Sup2 == "sup2"

Whitespace == {Space, Nbsp, Tab}
Decimal == {"0", "1", "2"}
DigitClass == Decimal \cup {Sup2}
Chars == {"1", "2", Space, Nbsp, Tab, "a", Sup2}

RECURSIVE SeqsUpTo(_, _)
SeqsUpTo(S, n) ==
    IF n = 0 THEN {<<>>}
    ELSE LET shorter == SeqsUpTo(S, n - 1)
         IN shorter \cup {Append(s, x) : s \in {t \in shorter : Len(t) = n - 1}, x \in S}

Range(s) == {s[k] : k \in DOMAIN s}

Ok(v) == [exc |-> "none", val |-> v]
Raise(e) == [exc |-> e, val |-> 0]
NoRet == [exc |-> "pending", val |-> 0]

\* str.replace(ch, ""): every occurrence of ch removed
replace(text, ch) == SelectSeq(text, LAMBDA c : c # ch)

RECURSIVE lstrip(_)
lstrip(text) ==
    IF text # <<>> /\ Head(text) \in Whitespace THEN lstrip(Tail(text)) ELSE text

RECURSIVE rstrip(_)
rstrip(text) ==
    IF text # <<>> /\ text[Len(text)] \in Whitespace
    THEN rstrip(SubSeq(text, 1, Len(text) - 1))
    ELSE text

\* str.strip(): leading and trailing white space removed
strip(text) == rstrip(lstrip(text))

\* str.isdigit(): non-empty and every character in the Unicode digit class
isdigit(t) == t # <<>> /\ \A k \in DOMAIN t : t[k] \in DigitClass

DigitVal(c) == CASE c = "0" -> 0 [] c = "1" -> 1 [] c = "2" -> 2 [] OTHER -> 0

RECURSIVE DecimalValue(_)
DecimalValue(t) ==
    IF t = <<>> THEN 0
    ELSE 10 * DecimalValue(SubSeq(t, 1, Len(t) - 1)) + DigitVal(t[Len(t)])

\* int(t) for a t that passed isdigit: the value of a decimal string, ValueError
\* for a digit that is not a decimal digit
int(t) ==
    IF \A k \in DOMAIN t : t[k] \in Decimal
    THEN Ok(DecimalValue(t))
    ELSE Raise("ValueError")

clean_number(text) ==
    LET t == strip(replace(replace(text, Nbsp), Space))
    IN IF isdigit(t) THEN int(t) ELSE Ok(0)

\* ------------------------------------------------------- clean_number alone
MainIdle ==
    /\ argv = <<>>
    /\ exit_code = 0
    /\ fetched = <<>>
    /\ soup = <<>>
    /\ municipalities = <<>>
    /\ rows = <<>>
    /\ party_cols = <<>>
    /\ file = [exists |-> FALSE, lines |-> <<>>]

InitClean ==
    /\ pc = "call"
    /\ arg \in SeqsUpTo(Chars, MaxLen)
    /\ ret = NoRet
    /\ MainIdle

CallCleanNumber ==
    /\ pc = "call"
    /\ ret' = clean_number(arg)
    /\ pc' = "return"
    /\ UNCHANGED <<arg, mainVars>>

NextClean == CallCleanNumber

SpecClean == InitClean /\ [][NextClean]_vars

\* C7: clean_number never raises: a clean decimal string yields its value,
\* spaces and non-breaking spaces alone yield 0, a remainder that is not a
\* decimal string (once spaces and non-breaking spaces are removed and the
\* ends trimmed, as integer parsing trims them) yields 0, and the result is
\* always a non-negative integer.
C7_CleanNumberTotal ==
    pc = "return" =>
        /\ ret.exc = "none"
        /\ ret.val \in Nat
        /\ (arg # <<>> /\ Range(arg) \subseteq Decimal => ret.val = DecimalValue(arg))
        /\ (Range(arg) \subseteq {Space, Nbsp} => ret.val = 0)
        /\ (Range(strip(replace(replace(arg, Nbsp), Space))) \ Decimal # {} => ret.val = 0)

\* what holds of the code: the same, whenever int() does not raise
C7_WhenNoValueError ==
    (pc = "return" /\ ret.exc # "ValueError") =>
        /\ ret.exc = "none"
        /\ ret.val \in Nat
        /\ (arg # <<>> /\ Range(arg) \subseteq Decimal => ret.val = DecimalValue(arg))
        /\ (Range(arg) \subseteq {Space, Nbsp} => ret.val = 0)
        /\ (Range(strip(replace(replace(arg, Nbsp), Space))) \ Decimal # {} => ret.val = 0)

\* --------------------------------------------------------------- the locator
\* A URL is its scheme, host and path segments; a relative reference has an
\* empty scheme and host.
Url(scheme, host, path) == [scheme |-> scheme, host |-> host, path |-> path]
Rel(segment) == Url("", "", <<segment>>)

XobecSegments == {"ps311?xobec=1", "ps311?xobec=2"}

\* "xobec=" in href
has_xobec(href) == \E k \in DOMAIN href.path : href.path[k] \in XobecSegments

\* urllib.parse.urljoin: an absolute reference stands, a relative one replaces
\* the last path segment of the base
urljoin(base_url, href) ==
    IF href.scheme # "" THEN href
    ELSE [base_url EXCEPT !.path = SubSeq(base_url.path, 1, Len(base_url.path) - 1) \o href.path]

\* An <a href> element of the district page: its href, its text, whether it
\* has an enclosing <tr>, and the texts of that row's <td> cells.
Link(href, text, tr, tds) == [href |-> href, text |-> text, tr |-> tr, tds |-> tds]

\* the four `continue` tests of the first loop
passes_filters(a) ==
    /\ has_xobec(a.href)
    /\ isdigit(strip(a.text))
    /\ a.tr
    /\ Len(a.tds) >= 2

municipality_of(a, base_url) ==
    [code |-> strip(a.text), name |-> strip(a.tds[2]), url |-> urljoin(base_url, a.href)]

\* unique[m["code"]] = m on an insertion-ordered dict, kept as the sequence of
\* its values: a new key is appended, an existing key keeps its place
dict_set_keep_first(unique, m) ==
    IF \E k \in DOMAIN unique : unique[k].code = m.code
    THEN unique
    ELSE Append(unique, m)

dict_set(unique, m) ==
    IF \E k \in DOMAIN unique : unique[k].code = m.code
    THEN [k \in DOMAIN unique |-> IF unique[k].code = m.code THEN m ELSE unique[k]]
    ELSE Append(unique, m)

RECURSIVE dedupe(_, _)
dedupe(unique, ms) ==
    IF ms = <<>> THEN unique ELSE dedupe(dict_set(unique, Head(ms)), Tail(ms))

RECURSIVE collect(_, _)
collect(links, base_url) ==
    IF links = <<>> THEN <<>>
    ELSE LET a == Head(links)
             rest == collect(Tail(links), base_url)
         IN IF passes_filters(a) THEN <<municipality_of(a, base_url)>> \o rest ELSE rest

find_municipalities(district_soup, base_url) ==
    LET result == dedupe(<<>>, collect(district_soup, base_url))
    IN IF result = <<>> THEN Raise("SystemExit") ELSE Ok(result)

BaseUrl == Url("https", "volby.cz", <<"pls", "ps32?xnumnuts=2101">>)

QualifyingLinks ==
    {Link(Rel(seg), code, TRUE, <<code, name>>) :
        seg \in XobecSegments, code \in {<<"1">>, <<"2">>}, name \in {<<"Alfa">>, <<Space, "Beta">>}}

OtherLinks ==
    { Link(Rel("ps34?xnumnuts=1"), <<"1">>, TRUE, <<<<"1">>, <<"Alfa">>>>),
      Link(Rel("ps311?xobec=1"), <<"a">>, TRUE, <<<<"a">>, <<"Alfa">>>>),
      Link(Rel("ps311?xobec=1"), <<"1">>, FALSE, <<>>),
      Link(Rel("ps311?xobec=2"), <<"2">>, TRUE, <<<<"2">>>>) }

AbsoluteLinks ==
    { Link(Url("https", "volby.cz", <<"pls", "ps311?xobec=2">>), <<"2">>, TRUE, <<<<"2">>, <<"Gama">>>>) }

Links == QualifyingLinks \cup AbsoluteLinks \cup OtherLinks

InitLoc ==
    /\ pc = "call"
    /\ arg \in SeqsUpTo(Links, MaxLinks)
    /\ ret = NoRet
    /\ MainIdle

CallFindMunicipalities ==
    /\ pc = "call"
    /\ ret' = find_municipalities(arg, BaseUrl)
    /\ pc' = "return"
    /\ UNCHANGED <<arg, mainVars>>

NextLoc == CallFindMunicipalities

SpecLoc == InitLoc /\ [][NextLoc]_vars

\* the claim's qualifying links, in page order
IsQualifying(a) ==
    has_xobec(a.href) /\ isdigit(strip(a.text)) /\ a.tr /\ Len(a.tds) >= 2
Qualifying == SelectSeq(arg, IsQualifying)
FirstAt(code) == CHOOSE k \in DOMAIN Qualifying :
    /\ strip(Qualifying[k].text) = code
    /\ \A j \in 1..(k - 1) : strip(Qualifying[j].text) # code
LastAt(code) == CHOOSE k \in DOMAIN Qualifying :
    /\ strip(Qualifying[k].text) = code
    /\ \A j \in (k + 1)..Len(Qualifying) : strip(Qualifying[j].text) # code

\* C6: find_municipalities returns one entry per distinct identifier of the
\* qualifying links, ordered by the identifiers' first occurrences, each
\* carrying the name and detail URL of the identifier's last occurrence.
C6_LocatorDedup ==
    (pc = "return" /\ Qualifying # <<>>) =>
        LET res == ret.val
            ids == {strip(Qualifying[k].text) : k \in DOMAIN Qualifying}
        IN /\ ret.exc = "none"
           /\ Len(res) = Cardinality(ids)
           /\ \A j, k \in DOMAIN res : j # k => res[j].code # res[k].code
           /\ \A j \in DOMAIN res : res[j].code \in ids
           /\ \A j, k \in DOMAIN res : j < k => FirstAt(res[j].code) < FirstAt(res[k].code)
           /\ \A j \in DOMAIN res :
                LET a == Qualifying[LastAt(res[j].code)]
                IN /\ res[j].name = strip(a.tds[2])
                   /\ res[j].url = urljoin(BaseUrl, a.href)

\* a repeated identifier whose occurrences differ, between two other entries
C6_Witness ==
    /\ pc = "return"
    /\ ret.exc = "none"
    /\ Len(ret.val) = 2
    /\ Len(Qualifying) = 3
    /\ strip(Qualifying[1].text) = strip(Qualifying[3].text)
    /\ strip(Qualifying[1].text) # strip(Qualifying[2].text)
    /\ Qualifying[1] # Qualifying[3]

\* ------------------------------------------------------- municipality pages
\* A municipality page is the sequence of its table rows in document order; a
\* row is the sequence of its cells; a cell has a tag ("td" or "th"), a class,
\* a headers attribute and a text.
Cell(tag, cls, headers, text) == [tag |-> tag, cls |-> cls, headers |-> headers, text |-> text]
Td(text) == Cell("td", "", "", text)
Th(text) == Cell("th", "", "", text)
TdName(text) == Cell("td", "overflow_name", "", text)
TdH(h, text) == Cell("td", "", h, text)

is_td(c) == c.tag = "td"

RECURSIVE Flatten(_)
Flatten(ss) == IF ss = <<>> THEN <<>> ELSE Head(ss) \o Flatten(Tail(ss))

\* ------------------------------------------------------ extract_party_votes
is_name_td(c) == c.tag = "td" /\ c.cls = "overflow_name"

\* votes[party] = vote_val on a dict kept as a function
dict_put(votes, party, vote_val) ==
    [p \in DOMAIN votes \cup {party} |-> IF p = party THEN vote_val ELSE votes[p]]

\* one iteration of the loop over the rows; st.exc carries a raised exception
party_row(st, row) ==
    LET name_tds == SelectSeq(row, is_name_td)
        tds == SelectSeq(row, is_td)
    IN IF st.exc # "none" \/ name_tds = <<>> \/ Len(tds) < 3 THEN st
       ELSE LET party == strip(name_tds[1].text)
                vote_val == clean_number(tds[3].text)
            IN IF vote_val.exc # "none" THEN [st EXCEPT !.exc = vote_val.exc]
               ELSE IF party # <<>> /\ party \notin DOMAIN st.votes
                    THEN [st EXCEPT !.votes = dict_put(st.votes, party, vote_val.val),
                                    !.party_order = Append(st.party_order, party)]
                    ELSE st

RECURSIVE party_rows(_, _)
party_rows(st, trs) ==
    IF trs = <<>> THEN st ELSE party_rows(party_row(st, Head(trs)), Tail(trs))

extract_party_votes(muni_soup) ==
    LET st == party_rows([party_order |-> <<>>, votes |-> <<>>, exc |-> "none"], muni_soup)
    IN IF st.exc # "none" THEN Raise(st.exc)
       ELSE IF DOMAIN st.votes = {} THEN Raise("SystemExit")
       ELSE Ok([party_order |-> st.party_order, votes |-> st.votes])

\* -------------------------------------------------- extract_summary_numbers
\* the three label words, written here without their diacritics
LabelRegistered == "Volici v seznamu"
LabelEnvelopes == "Vydane obalky"
LabelValid == "Platne hlasy"

\* the labels dict in its insertion order
labels == << <<LabelRegistered, "registered">>,
             <<LabelEnvelopes, "envelopes">>,
             <<LabelValid, "valid">> >>

by_headers(muni_soup, h) ==
    LET tds == SelectSeq(Flatten(muni_soup), LAMBDA c : c.tag = "td" /\ c.headers = h)
    IN IF tds = <<>> THEN Ok(0) ELSE clean_number(tds[1].text)

\* the test of the inner loop: label in cells[0] and found[key] == 0
label_test(label, first_cell, found_value) ==
    label \in Range(first_cell) /\ found_value = 0

\* the inner loop over labels for one row's cell texts
RECURSIVE label_loop(_, _, _)
label_loop(st, cells, k) ==
    IF k > Len(labels) \/ st.exc # "none" THEN st
    ELSE LET label == labels[k][1]
             key == labels[k][2]
         IN IF label_test(label, cells[1], st.found[key])
            THEN LET n == clean_number(cells[2])
                 IN IF n.exc # "none"
                    THEN [st EXCEPT !.exc = n.exc]
                    ELSE label_loop([st EXCEPT !.found[key] = n.val], cells, k + 1)
            ELSE label_loop(st, cells, k + 1)

summary_row(st, row) ==
    LET cells == [k \in DOMAIN row |-> strip(row[k].text)]
    IN IF st.exc # "none" \/ Len(cells) < 2 THEN st ELSE label_loop(st, cells, 1)

RECURSIVE summary_rows(_, _)
summary_rows(st, trs) ==
    IF trs = <<>> THEN st ELSE summary_rows(summary_row(st, Head(trs)), Tail(trs))

\* the test that guards the fallback: not (registered and envelopes and valid)
needs_fallback(registered, envelopes, valid) ==
    ~(registered # 0 /\ envelopes # 0 /\ valid # 0)

extract_summary_numbers(muni_soup) ==
    LET registered == by_headers(muni_soup, "sa2")
        envelopes == by_headers(muni_soup, "sa3")
        valid == by_headers(muni_soup, "sa6")
        primary == [registered |-> registered.val, envelopes |-> envelopes.val, valid |-> valid.val]
    IN IF registered.exc # "none" THEN Raise(registered.exc)
       ELSE IF envelopes.exc # "none" THEN Raise(envelopes.exc)
       ELSE IF valid.exc # "none" THEN Raise(valid.exc)
       ELSE IF needs_fallback(registered.val, envelopes.val, valid.val)
            THEN LET st == summary_rows([found |-> primary, exc |-> "none"], muni_soup)
                 IN IF st.exc # "none" THEN Raise(st.exc) ELSE Ok(st.found)
            ELSE Ok(primary)

\* ----------------------------------------------- extract_party_votes alone
PartyX == <<"Strana X">>
PartyY == <<"Strana Y">>

PartyRowSet ==
    {<<Td(<<"1">>), TdName(name), Td(v)>> :
        name \in {PartyX, PartyY, <<>>},
        v \in {<<"1">>, <<"2", Nbsp, "1">>, <<Sup2>>}}
    \cup
    { <<Td(<<"1">>), Td(PartyX), Td(<<"2">>)>>,
      <<TdName(PartyX), Td(<<"1">>)>>,
      <<Td(<<"2">>), TdName(<<Space, "Strana Y">>), Th(<<"a">>), Td(<<"a">>)>> }

InitParty ==
    /\ pc = "call"
    /\ arg \in SeqsUpTo(PartyRowSet, MaxRows)
    /\ ret = NoRet
    /\ MainIdle

CallExtractPartyVotes ==
    /\ pc = "call"
    /\ ret' = extract_party_votes(arg)
    /\ pc' = "return"
    /\ UNCHANGED <<arg, mainVars>>

NextParty == CallExtractPartyVotes

SpecParty == InitParty /\ [][NextParty]_vars

\* the numeric normalization rule as section 4.2 states it: spaces and
\* non-breaking spaces stripped, a decimal remainder parsed, anything else zero
Normalized(text) ==
    LET t == strip(replace(replace(text, Nbsp), Space))
    IN IF t # <<>> /\ Range(t) \subseteq Decimal THEN DecimalValue(t) ELSE 0

\* rows with a party-name marker cell and at least three cells, a name that is
\* not empty; their names and third cells
HasMarker(row) == \E k \in DOMAIN row : is_name_td(row[k])
NameOf(row) == strip(SelectSeq(row, is_name_td)[1].text)
ThirdOf(row) == SelectSeq(row, is_td)[3].text
IsPartyRow(row) ==
    HasMarker(row) /\ Len(SelectSeq(row, is_td)) >= 3 /\ NameOf(row) # <<>>
PartyRows == SelectSeq(arg, IsPartyRow)
FirstRowOf(name) == CHOOSE k \in DOMAIN PartyRows :
    /\ NameOf(PartyRows[k]) = name
    /\ \A j \in 1..(k - 1) : NameOf(PartyRows[j]) # name

PartyResultOk ==
    LET order == ret.val.party_order
        votes == ret.val.votes
    IN /\ \A j, k \in DOMAIN order : j # k => order[j] # order[k]
       /\ \A j \in DOMAIN order : order[j] # <<>>
       /\ Range(order) = {NameOf(PartyRows[k]) : k \in DOMAIN PartyRows}
       /\ \A j, k \in DOMAIN order : j < k => FirstRowOf(order[j]) < FirstRowOf(order[k])
       /\ DOMAIN votes = Range(order)
       /\ \A j \in DOMAIN order :
            votes[order[j]] = Normalized(ThirdOf(PartyRows[FirstRowOf(order[j])]))

\* C8: for any rows extract_party_votes returns the party names without
\* duplicates or empty names in first-seen order, each with the normalized
\* third cell of its first row, the mapping's keys being the list's names; it
\* fails with NoPartyResultsFound when no party row is found.
C8_PartyVotes ==
    pc = "return" =>
        IF PartyRows = <<>> THEN ret.exc = "SystemExit"
        ELSE ret.exc = "none" /\ PartyResultOk

\* what holds of the code: the same, whenever no vote cell makes clean_number raise
C8_WhenNoValueError ==
    (pc = "return" /\ ret.exc # "ValueError") =>
        IF PartyRows = <<>> THEN ret.exc = "SystemExit"
        ELSE ret.exc = "none" /\ PartyResultOk

\* ------------------------------------------- extract_summary_numbers alone
SummaryRowSet ==
    {<<Th(<<label>>), Td(v)>> :
        label \in {LabelRegistered, LabelEnvelopes, LabelValid},
        v \in {<<"1">>, <<"a">>, <<"2", Space, "1">>}}
    \cup
    { <<TdH("sa2", <<"1", Nbsp, "2">>), TdH("sa3", <<"2">>), TdH("sa6", <<"1">>)>>,
      <<TdH("sa2", <<"2">>), TdH("sa3", <<"a">>)>>,
      <<TdH("sa6", <<Sup2>>)>>,
      <<Th(<<LabelEnvelopes>>), Td(<<Sup2>>)>>,
      <<Td(<<LabelRegistered, Space, LabelValid>>), Td(<<"2">>)>>,
      <<Td(<<LabelEnvelopes>>)>> }

InitSummary ==
    /\ pc = "call"
    /\ arg \in SeqsUpTo(SummaryRowSet, MaxRows)
    /\ ret = NoRet
    /\ MainIdle

CallExtractSummaryNumbers ==
    /\ pc = "call"
    /\ ret' = extract_summary_numbers(arg)
    /\ pc' = "return"
    /\ UNCHANGED <<arg, mainVars>>

NextSummary == CallExtractSummaryNumbers

SpecSummary == InitSummary /\ [][NextSummary]_vars

\* the primary value of a field: the normalized first cell carrying its
\* headers key, zero when there is none
PrimaryOf(h) ==
    LET tds == SelectSeq(Flatten(arg), LAMBDA c : c.tag = "td" /\ c.headers = h)
    IN IF tds = <<>> THEN 0 ELSE Normalized(tds[1].text)

\* the first non-zero normalized second cell among the rows whose first cell
\* contains the label, zero when there is none
FallbackOf(label) ==
    LET hits == SelectSeq(arg, LAMBDA row :
                    /\ Len(row) >= 2
                    /\ label \in Range(strip(row[1].text))
                    /\ Normalized(strip(row[2].text)) # 0)
    IN IF hits = <<>> THEN 0 ELSE Normalized(strip(hits[1][2].text))

ExpectedOf(h, label) == IF PrimaryOf(h) # 0 THEN PrimaryOf(h) ELSE FallbackOf(label)

SummaryResultOk ==
    /\ ret.val.registered = ExpectedOf("sa2", LabelRegistered)
    /\ ret.val.envelopes = ExpectedOf("sa3", LabelEnvelopes)
    /\ ret.val.valid = ExpectedOf("sa6", LabelValid)

\* C9: extract_summary_numbers returns each non-zero primary value unchanged
\* whatever the rows contain, and for a zero primary value the first non-zero
\* normalized second cell among the rows labelled for that field, else zero.
C9_SummaryFallback ==
    pc = "return" => (ret.exc = "none" /\ SummaryResultOk)

\* what holds of the code: the same, whenever no cell makes clean_number raise
C9_WhenNoValueError ==
    (pc = "return" /\ ret.exc # "ValueError") => (ret.exc = "none" /\ SummaryResultOk)

\* ------------------------------------------------------------------- main
\* sys.argv: the script name, then the arguments.  An argument is a URL or a
\* file name given as its stem and extension.
FileName(stem, ext) == [stem |-> stem, ext |-> ext]

\* str.lower() of an extension
lower(ext) == IF ext = ".CSV" THEN ".csv" ELSE ext

\* "volby.cz" in url
contains_volby(url) == url.host = "volby.cz" \/ "volby.cz" \in Range(url.path)

parse_args(av) ==
    IF Len(av) # 3 THEN Raise("SystemExit")
    ELSE LET url == av[2]
             out_csv == av[3]
         IN IF ~(url.scheme = "http" \/ url.scheme = "https") THEN Raise("SystemExit")
            ELSE IF ~contains_volby(url) THEN Raise("SystemExit")
            ELSE IF lower(out_csv.ext) # ".csv" THEN Raise("SystemExit")
            ELSE Ok([url |-> url, out_csv |-> out_csv])

\* die: the message is printed and sys.exit(code) ends the run
die == [pc |-> "exited", exit_code |-> 1]

\* resp.status_code != 200 is the failure test of fetch_soup
status_ok_always(status) == TRUE

status_ok(status) == status = 200

\* requests.get got no response (a timeout, a refused connection) and raised
NoResponse == 0

\* how fetch_soup ends for a response status, or for no response
fetch_soup(status) ==
    IF status = NoResponse THEN "raise"
    ELSE IF status_ok(status) THEN "return" ELSE "die"

\* str() of a non-negative integer, as the csv writer renders a number
DigitChar(d) ==
    CASE d = 0 -> "0" [] d = 1 -> "1" [] d = 2 -> "2" [] d = 3 -> "3" [] d = 4 -> "4"
      [] d = 5 -> "5" [] d = 6 -> "6" [] d = 7 -> "7" [] d = 8 -> "8" [] OTHER -> "9"

RECURSIVE str(_)
str(n) == IF n < 10 THEN <<DigitChar(n)>> ELSE Append(str(n \div 10), DigitChar(n % 10))

\* ---------------------------------------------------------------- write_csv
FixedCols == << <<"code">>, <<"location">>, <<"registered">>, <<"envelopes">>, <<"valid">> >>

fieldnames_parties_first(pcols) == pcols \o FixedCols

fieldnames(pcols) == FixedCols \o pcols

\* r[k] for the five fixed keys, rendered as the writer renders it
field(r, k) ==
    CASE k = <<"code">> -> r.code
      [] k = <<"location">> -> r.location
      [] k = <<"registered">> -> str(r.registered)
      [] k = <<"envelopes">> -> str(r.envelopes)
      [] OTHER -> str(r.valid)

\* votes.get(p, 0)
dict_get_or_first(votes, p, default) ==
    IF p \in DOMAIN votes THEN votes[p] ELSE votes[CHOOSE q \in DOMAIN votes : TRUE]

dict_get(votes, p, default) == IF p \in DOMAIN votes THEN votes[p] ELSE default

\* the loop `for p in party_cols: out[p] = votes.get(p, 0)` from column k on
RECURSIVE fill_parties(_, _, _, _)
fill_parties(out, votes, pcols, k) ==
    IF k > Len(pcols) THEN out
    ELSE fill_parties(dict_put(out, pcols[k], str(dict_get(votes, pcols[k], 0))), votes, pcols, k + 1)

\* DictWriter.writerow: the dict's value under each field name, in order
writerow(out, names) == [j \in DOMAIN names |-> out[names[j]]]

csv_row(r, pcols) ==
    LET out == [k \in Range(FixedCols) |-> field(r, k)]
    IN writerow(fill_parties(out, r._party_votes, pcols, 1), fieldnames(pcols))

write_csv(rs, pcols) ==
    [exists |-> TRUE,
     lines |-> <<fieldnames(pcols)>> \o [j \in DOMAIN rs |-> csv_row(rs[j], pcols)]]

\* ------------------------------------------------------------ the scrape loop
\* if not party_cols: party_cols = data["_party_order"]
set_party_cols_every_time(pcols, data) == data._party_order

set_party_cols(pcols, data) == IF pcols = <<>> THEN data._party_order ELSE pcols

\* the municipality the loop scrapes next, n rows being appended so far
next_municipality_first(ms, n) == ms[1]

next_municipality(ms, n) == ms[n + 1]

\* ------------------------------------------------------------ inputs of main
OutCsv == FileName("out", ".csv")

ArgvSet ==
    { <<"main.py", BaseUrl>>,
      <<"main.py", BaseUrl, OutCsv, OutCsv>>,
      <<"main.py", Url("ftp", "volby.cz", <<"pls", "ps32?xnumnuts=2101">>), OutCsv>>,
      <<"main.py", Url("https", "example.org", <<"pls", "ps32?xnumnuts=2101">>), OutCsv>>,
      <<"main.py", BaseUrl, FileName("out", ".txt")>>,
      <<"main.py", BaseUrl, OutCsv>>,
      <<"main.py", Url("http", "example.org", <<"volby.cz", "ps32?xnumnuts=2101">>), FileName("out", ".CSV")>> }

MuniLink(seg, code, name) == Link(Rel(seg), code, TRUE, <<code, name>>)

DistrictPages ==
    { <<>>,
      <<Link(Rel("ps34?xnumnuts=1"), <<"1">>, TRUE, <<<<"1">>, <<"Alfa">>>>)>>,
      <<MuniLink("ps311?xobec=1", <<"1">>, <<"Alfa">>), MuniLink("ps311?xobec=2", <<"2">>, <<"Beta">>)>>,
      <<MuniLink("ps311?xobec=2", <<"2">>, <<"Beta">>),
        MuniLink("ps311?xobec=1", <<"1">>, <<"Alfa">>),
        MuniLink("ps311?xobec=2", <<"2">>, <<"X">>)>>,
      <<MuniLink("ps311?xobec=1", <<"1">>, <<"Alfa">>),
        MuniLink("ps311?xobec=2", <<"2">>, <<"Beta">>),
        MuniLink("ps311?xobec=1", <<"1", "2">>, <<"Gama">>)>> }

PartyZ == <<"Strana Z">>
PartyRow(name, v) == <<Td(<<"1">>), TdName(name), Td(v)>>
PrimaryRow == <<TdH("sa2", <<"1", Nbsp, "2">>), TdH("sa3", <<"2">>), TdH("sa6", <<"1">>)>>

MuniPages ==
    { <<PrimaryRow, PartyRow(PartyX, <<"2">>), PartyRow(PartyY, <<"1">>)>>,
      <<<<Th(<<LabelRegistered>>), Td(<<"2", Space, "1">>)>>,
        <<Th(<<LabelValid>>), Td(<<"2">>)>>,
        PartyRow(PartyY, <<"1", "1">>), PartyRow(PartyZ, <<"2">>), PartyRow(PartyY, <<"2">>)>>,
      <<PrimaryRow, PartyRow(PartyZ, <<"1">>), PartyRow(<<"valid">>, <<"2", "2">>)>>,
      <<PrimaryRow, PartyRow(<<>>, <<"1">>), <<TdName(PartyX), Td(<<"1">>)>>>>,
      <<PrimaryRow, PartyRow(PartyX, <<"1">>), PartyRow(PartyY, <<Sup2>>)>>,
      <<<<TdH("sa2", <<Sup2>>)>>, PartyRow(PartyX, <<"1">>)>> }

Statuses == {200, 404, NoResponse}

\* ---------------------------------------------------------- actions of main
Init ==
    /\ pc = "start"
    /\ argv \in ArgvSet
    /\ exit_code = 0
    /\ fetched = <<>>
    /\ soup = <<>>
    /\ municipalities = <<>>
    /\ rows = <<>>
    /\ party_cols = <<>>
    /\ file = [exists |-> FALSE, lines |-> <<>>]
    /\ arg = <<>>
    /\ ret = NoRet

Exit(d) == pc' = d.pc /\ exit_code' = d.exit_code

\* an exception that nothing catches ends the run with a traceback
Crash == pc' = "crashed" /\ exit_code' = 1

ParseArgs ==
    /\ pc = "start"
    /\ IF parse_args(argv).exc = "none"
       THEN pc' = "fetch_district" /\ UNCHANGED exit_code
       ELSE Exit(die)
    /\ UNCHANGED <<argv, fetched, soup, municipalities, rows, party_cols, file, arg, ret>>

\* fetch_soup(url) for the district page
FetchDistrict ==
    /\ pc = "fetch_district"
    /\ \E status \in Statuses, page \in DistrictPages :
        /\ fetched' = Append(fetched, [url |-> parse_args(argv).val.url, status |-> status])
        /\ IF fetch_soup(status) = "return"
           THEN soup' = page /\ pc' = "find" /\ UNCHANGED exit_code
           ELSE IF fetch_soup(status) = "die"
           THEN Exit(die) /\ UNCHANGED soup
           ELSE Crash /\ UNCHANGED soup
    /\ UNCHANGED <<argv, municipalities, rows, party_cols, file, arg, ret>>

FindMunicipalities ==
    /\ pc = "find"
    /\ LET found == find_municipalities(soup, parse_args(argv).val.url)
       IN IF found.exc = "none"
          THEN /\ municipalities' = found.val
               /\ rows' = <<>>
               /\ party_cols' = <<>>
               /\ pc' = "loop"
               /\ UNCHANGED exit_code
          ELSE Exit(die) /\ UNCHANGED <<municipalities, rows, party_cols>>
    /\ UNCHANGED <<argv, fetched, soup, file, arg, ret>>

\* the loop goes on while a municipality is left
loop_done(ms, n) == n = Len(ms)

\* scrape_municipality, first statement: fetch_soup(m["url"])
FetchMunicipality ==
    /\ pc = "loop"
    /\ ~loop_done(municipalities, Len(rows))
    /\ \E status \in Statuses, page \in MuniPages :
        /\ fetched' = Append(fetched,
              [url |-> next_municipality(municipalities, Len(rows)).url, status |-> status])
        /\ IF fetch_soup(status) = "return"
           THEN soup' = page /\ pc' = "extract" /\ UNCHANGED exit_code
           ELSE IF fetch_soup(status) = "die"
           THEN Exit(die) /\ UNCHANGED soup
           ELSE Crash /\ UNCHANGED soup
    /\ UNCHANGED <<argv, municipalities, rows, party_cols, file, arg, ret>>

\* the row dict scrape_municipality builds
row_of(m, summary, parties) ==
    [code |-> m.code, location |-> m.name,
     registered |-> summary.registered, envelopes |-> summary.envelopes, valid |-> summary.valid,
     _party_order |-> parties.party_order, _party_votes |-> parties.votes]

\* scrape_municipality after the fetch, then the rest of the loop body
ExtractMunicipality ==
    /\ pc = "extract"
    /\ LET summary == extract_summary_numbers(soup)
           parties == extract_party_votes(soup)
           m == next_municipality(municipalities, Len(rows))
       IN IF summary.exc # "none"
          THEN Crash /\ UNCHANGED <<rows, party_cols>>
          ELSE IF parties.exc = "ValueError"
          THEN Crash /\ UNCHANGED <<rows, party_cols>>
          ELSE IF parties.exc = "SystemExit"
          THEN Exit(die) /\ UNCHANGED <<rows, party_cols>>
          ELSE LET data == row_of(m, summary.val, parties.val)
               IN /\ party_cols' = set_party_cols(party_cols, data)
                  /\ rows' = Append(rows, data)
                  /\ pc' = "loop"
                  /\ UNCHANGED exit_code
    /\ UNCHANGED <<argv, fetched, soup, municipalities, file, arg, ret>>

WriteCsv ==
    /\ pc = "loop"
    /\ loop_done(municipalities, Len(rows))
    /\ file' = write_csv(rows, party_cols)
    /\ pc' = "done"
    /\ UNCHANGED <<argv, exit_code, fetched, soup, municipalities, rows, party_cols, arg, ret>>

Next ==
    \/ ParseArgs
    \/ FetchDistrict
    \/ FindMunicipalities
    \/ FetchMunicipality
    \/ ExtractMunicipality
    \/ WriteCsv

Spec == Init /\ [][Next]_vars

\* ------------------------------------------------------------ claims on main
Failed == pc \in {"exited", "crashed"} \/ exit_code # 0

\* C1: a run that fails (arguments, a non-200 fetch, no municipality, no party
\* result on some municipality page) never has an output file: the file
\* exists only after every municipality has been scraped successfully.
C1_NoFileOnFailure ==
    /\ Failed => ~file.exists
    /\ file.exists =>
        /\ parse_args(argv).exc = "none"
        /\ \A k \in DOMAIN fetched : fetched[k].status = 200
        /\ municipalities # <<>>
        /\ Len(rows) = Len(municipalities)
        /\ Len(fetched) = 1 + Len(municipalities)
        /\ \A k \in DOMAIN rows : rows[k]._party_order # <<>>

\* the last municipality page has no party result, the ones before it scraped
C1_Witness ==
    /\ pc = "exited"
    /\ Len(municipalities) >= 2
    /\ Len(rows) = Len(municipalities) - 1
    /\ Len(fetched) = 1 + Len(municipalities)
    /\ fetched[Len(fetched)].status = 200
    /\ ~file.exists

\* C2 (as amended): on a successful run the header row is code, location,
\* registered, envelopes, valid, then the first scraped municipality's party
\* names in their first-seen order.
C2_Header ==
    pc = "done" =>
        file.lines[1] = << <<"code">>, <<"location">>, <<"registered">>, <<"envelopes">>, <<"valid">> >>
                            \o rows[1]._party_order

\* C2 as stated: the header row begins identifier, name, registered,
\* envelopes, valid.
C2_HeaderAsStated ==
    pc = "done" =>
        file.lines[1] = << <<"identifier">>, <<"name">>, <<"registered">>, <<"envelopes">>, <<"valid">> >>
                            \o rows[1]._party_order

\* a file written for two municipalities whose party orders differ
C2_Witness ==
    /\ pc = "done"
    /\ file.exists
    /\ Len(rows) >= 2
    /\ rows[1]._party_order = <<PartyX, PartyY>>
    /\ rows[2]._party_order # rows[1]._party_order

\* C3: on a successful run there is one data row per located municipality, in
\* discovery order, row i carrying municipality i's identifier and name and
\* its own registered, envelopes and valid values.
C3_RowsInDiscoveryOrder ==
    pc = "done" =>
        /\ Len(file.lines) = 1 + Len(municipalities)
        /\ \A k \in DOMAIN municipalities :
            SubSeq(file.lines[k + 1], 1, 5) =
                << municipalities[k].code, municipalities[k].name,
                   str(rows[k].registered), str(rows[k].envelopes), str(rows[k].valid) >>

\* what holds of the code: the same, whenever no party column is named like
\* one of the five fixed columns
C3_WhenNoNameClash ==
    (pc = "done" /\ Range(party_cols) \cap Range(FixedCols) = {}) =>
        /\ Len(file.lines) = 1 + Len(municipalities)
        /\ \A k \in DOMAIN municipalities :
            SubSeq(file.lines[k + 1], 1, 5) =
                << municipalities[k].code, municipalities[k].name,
                   str(rows[k].registered), str(rows[k].envelopes), str(rows[k].valid) >>

\* C4: every written row has 5 + len(party_cols) columns; a schema party the
\* record has gets the record's count, a schema party it lacks gets 0, and a
\* party outside the schema gives no column and no value.
C4_ProjectionTotal ==
    pc = "done" =>
        \A k \in DOMAIN rows :
            LET line == file.lines[k + 1]
                votes == rows[k]._party_votes
            IN /\ Len(line) = 5 + Len(party_cols)
               /\ \A j \in DOMAIN party_cols :
                    line[5 + j] = IF party_cols[j] \in DOMAIN votes
                                  THEN str(votes[party_cols[j]])
                                  ELSE <<"0">>

\* a later record with a party outside the schema and without a schema party
C4_Witness ==
    /\ pc = "done"
    /\ \E k \in 2..Len(rows) :
        /\ DOMAIN rows[k]._party_votes \ Range(party_cols) # {}
        /\ Range(party_cols) \ DOMAIN rows[k]._party_votes # {}

\* C5: party_cols is assigned once, by the first iteration of the loop, from
\* the first record's party order, and no later record changes it.
C5_SchemaFixedOnce ==
    /\ [](rows # <<>> => party_cols = rows[1]._party_order)
    /\ [][ /\ (party_cols' # party_cols => rows = <<>> /\ pc = "extract")
           /\ (rows # <<>> => rows'[1] = rows[1]) ]_vars

\* the loop is past a third record and the second record's parties differ
C5_Witness ==
    /\ pc = "loop"
    /\ Len(rows) = 3
    /\ rows[2]._party_order # party_cols
    /\ rows[3]._party_order # party_cols

\* C10: the district page is fetched once and first, the municipality pages
\* after it one at a time in discovery order, each only when the one before
\* it is extracted; a failed fetch is the last fetch of the run, and nothing
\* is fetched after the run has ended.
C10_SequentialFetches ==
    /\ [] /\ (pc \in {"start", "fetch_district"} => fetched = <<>>)
          /\ (fetched # <<>> => fetched[1].url = argv[2])
          /\ \A k \in 2..Len(fetched) :
                /\ k - 1 <= Len(municipalities)
                /\ fetched[k].url = municipalities[k - 1].url
                /\ Len(rows) >= k - 2
          /\ \A k \in 1..(Len(fetched) - 1) : fetched[k].status = 200
          /\ (pc = "loop" => Len(fetched) = Len(rows) + 1)
          /\ (pc = "extract" => Len(fetched) = Len(rows) + 2)
    /\ [][(pc \in {"exited", "crashed", "done"}) => (fetched' = fetched)]_vars

\* the second of three municipality pages answers 404 and the run has ended
C10_Witness ==
    /\ pc = "exited"
    /\ Len(municipalities) = 3
    /\ Len(fetched) = 3
    /\ fetched[3].status = 404
    /\ Len(rows) = 1

====
